---- MODULE Spec2Model ----
(***************************************************************************)
(* Default tuning parameters of the CLBlast database                       *)
(* (scripts/database/database/defaults.py).                                *)
(*                                                                         *)
(* A table (pandas DataFrame) is a sequence of rows; a row is a function   *)
(* from column names to values.  A missing value (NaN) is an absent        *)
(* column of the row, so the columns of a table that hold at least one     *)
(* value are the union of the domains of its rows.                         *)
(***************************************************************************)
EXTENDS Integers, Sequences, FiniteSets, TLC

VARIABLES database, pc, returned

vars == <<database, pc, returned>>

(***************************************************************************)
(* Column vocabulary and sentinels of module clblast.                      *)
(***************************************************************************)
DEVICE_NAME_DEFAULT == "default"
VENDOR_DEFAULT == "default"
DEVICE_TYPE_DEFAULT == "All"
DEVICE_TYPE_ATTRIBUTES == <<"device_vendor", "device_type">>
DEVICE_ATTRIBUTES == <<"device", "device_core_clock", "device_compute_units">>
KERNEL_ATTRIBUTES == <<"precision", "kernel_family">>
ARGUMENT_ATTRIBUTES == <<"arg_m", "arg_n">>
ATTRIBUTES ==
    DEVICE_ATTRIBUTES \o DEVICE_TYPE_ATTRIBUTES \o KERNEL_ATTRIBUTES \o ARGUMENT_ATTRIBUTES

\* The columns whose name contains "parameters." (defaults.py line 85).
PARAMETER_COLUMNS == <<"parameters.a", "parameters.b">>

\* The columns that hold strings; the others hold numbers.
STRING_COLUMNS == {"device", "device_vendor", "device_type", "kernel_family", "kernel"}

\* Python's order of the strings that occur (by code point).
StrOrder ==
    <<"AMD", "All", "CPU", "GPU", "Intel", "Xgemm", "Xgemv",
      "default", "dev0", "dev1", "xgemm", "xgemv">>

StrRanks == [s \in {StrOrder[i] : i \in DOMAIN StrOrder} |->
                CHOOSE i \in DOMAIN StrOrder : StrOrder[i] = s]

StrRank(s) == StrRanks[s]

\* v1 < v2 for two values of column c.
ValueLess(c, v1, v2) ==
    IF c \in STRING_COLUMNS THEN StrRank(v1) < StrRank(v2) ELSE v1 < v2

Range(s) == {s[i] : i \in DOMAIN s}

(***************************************************************************)
(* pandas primitives                                                       *)
(***************************************************************************)
\* The columns of a table that hold a value in some row: what is left of
\* the columns after dropna(axis=1, how='all').
Columns(rows) == UNION {DOMAIN rows[i] : i \in DOMAIN rows}

HasColumns(r, cols) == \A i \in DOMAIN cols : cols[i] \in DOMAIN r

Key(r, cols) == [i \in DOMAIN cols |-> r[cols[i]]]

\* Lexicographic order of two group keys over the columns cols.
KeyLess(cols, k1, k2) ==
    \E i \in DOMAIN cols :
        /\ \A j \in 1..(i - 1) : k1[j] = k2[j]
        /\ ValueLess(cols[i], k1[i], k2[i])

RECURSIVE SortKeys(_, _)
SortKeys(keys, cols) ==
    IF keys = {} THEN <<>>
    ELSE LET first == CHOOSE k \in keys : \A o \in keys \ {k} : KeyLess(cols, k, o)
         IN  <<first>> \o SortKeys(keys \ {first}, cols)

\* The rows of the group of key k, in the order of the table.
GroupRows(rows, cols, k) ==
    SelectSeq(rows, LAMBDA r : HasColumns(r, cols) /\ Key(r, cols) = k)

\* DataFrame.groupby(cols): the groups in the order of their keys, each
\* with its rows in the order of the table; a row with a missing value in
\* a key column is in no group.
GroupBy(rows, cols) ==
    LET keyed == SelectSeq(rows, LAMBDA r : HasColumns(r, cols))
        keys  == SortKeys({Key(keyed[i], cols) : i \in DOMAIN keyed}, cols)
    IN  [n \in DOMAIN keys |-> GroupRows(rows, cols, keys[n])]

RECURSIVE Concat(_)
Concat(tables) ==
    IF tables = <<>> THEN <<>> ELSE Head(tables) \o Concat(Tail(tables))

RECURSIVE SumTime(_)
SumTime(rows) ==
    IF rows = <<>> THEN 0 ELSE Head(rows)["time"] + SumTime(Tail(rows))

\* Series.min() of column c, missing values skipped.
ColumnMin(c, rows) ==
    LET vals == {rows[i][c] : i \in {j \in DOMAIN rows : c \in DOMAIN rows[j]}}
    IN  CHOOSE v \in vals : \A o \in vals \ {v} : ValueLess(c, v, o)

\* Mutant of MinAxis0: the minimum taken over whole rows (the first row
\* with the least time) instead of column by column.
MinAxis0_whole_row(rows) ==
    rows[CHOOSE i \in DOMAIN rows :
            /\ \A j \in DOMAIN rows : rows[i]["time"] <= rows[j]["time"]
            /\ \A j \in 1..(i - 1) : rows[j]["time"] # rows[i]["time"]]

\* DataFrame.min(axis=0): each column's minimum, independently.
MinAxis0(rows) == [c \in Columns(rows) |-> ColumnMin(c, rows)]

\* Mutant of DropDuplicates: no row is dropped.
DropDuplicates_keeps_all(rows, c) == rows

\* DataFrame.drop_duplicates([c]): the first row of each value of column c.
DropDuplicates(rows, c) ==
    LET keep == {i \in DOMAIN rows : \A j \in 1..(i - 1) : rows[j][c] # rows[i][c]}
        F[i \in 0..Len(rows)] ==
            IF i = 0 THEN <<>>
            ELSE IF i \in keep THEN Append(F[i - 1], rows[i]) ELSE F[i - 1]
    IN  F[Len(rows)]

(***************************************************************************)
(* bests.get_best_results: the best-selector                               *)
(***************************************************************************)
\* Per group of rows of one device, kernel and arguments, the rows with the
\* minimal time.
get_best_results(df) ==
    LET groups == GroupBy(df, ATTRIBUTES \o <<"kernel">>)
        best(g) ==
            LET best_time == ColumnMin("time", g)
            IN  SelectSeq(g, LAMBDA r : r["time"] = best_time)
    IN  Concat([n \in DOMAIN groups |-> best(groups[n])])

(***************************************************************************)
(* defaults.py                                                             *)
(***************************************************************************)
set_default_device(database_entry) ==
    [c \in DOMAIN database_entry \cup
           {"device", "device_compute_units", "device_core_clock"} |->
        IF c = "device" THEN DEVICE_NAME_DEFAULT
        ELSE IF c \in {"device_compute_units", "device_core_clock"} THEN 0
        ELSE database_entry[c]]

\* Mutant of set_default_time: the measured time is left in place.
set_default_time_keeps_time(database_entry) == database_entry

set_default_time(database_entry) ==
    [c \in DOMAIN database_entry \cup {"time"} |->
        IF c = "time" THEN 0 ELSE database_entry[c]]

get_smallest_best(db) == MinAxis0(get_best_results(db))

\* Lines 77-85.
num_devices(db) == Len(GroupBy(db, DEVICE_ATTRIBUTES))

parameter_column_names(db) ==
    SelectSeq(PARAMETER_COLUMNS, LAMBDA c : c \in Columns(db))

\* Lines 87-89: the rows of the parameter groups that hold num_devices rows.
database_common(db) ==
    LET cols == parameter_column_names(db)
        n    == num_devices(db)
    IN  SelectSeq(db, LAMBDA r :
            HasColumns(r, cols) /\ Len(GroupRows(db, cols, Key(r, cols))) = n)

\* Lines 96-99: column group_time, the summed time of the row's group.
with_group_time(common, cols) ==
    [i \in DOMAIN common |->
        ("group_time" :> SumTime(GroupRows(common, cols, Key(common[i], cols))))
            @@ common[i]]

\* Lines 101-106.
database_bests(common) ==
    LET best_time == ColumnMin("group_time", common)
    IN  DropDuplicates(SelectSeq(common, LAMBDA r : r["group_time"] = best_time),
                       "group_time")

\* raised: the assertion of line 108 failed; value: the row returned.
get_common_best(db, group_name) ==
    LET common == database_common(db)
        bests  == database_bests(with_group_time(common, parameter_column_names(db)))
    IN  IF Len(common) = 0
        THEN [raised |-> FALSE, value |-> get_smallest_best(db)]
        ELSE IF Len(bests) # 1
             THEN [raised |-> TRUE]
             ELSE [raised |-> FALSE, value |-> bests[1]]

TIER1_KEY == DEVICE_TYPE_ATTRIBUTES \o KERNEL_ATTRIBUTES \o <<"kernel">> \o ARGUMENT_ATTRIBUTES
WARNING_KEY == DEVICE_TYPE_ATTRIBUTES \o KERNEL_ATTRIBUTES \o <<"kernel">>
TIER2_KEY == KERNEL_ATTRIBUTES \o <<"kernel">> \o ARGUMENT_ATTRIBUTES

\* Lines 33-39: what the strategy returns for each group, in group order.
type_vendor_best(db, calculate_common_best) ==
    LET groups == GroupBy(db, TIER1_KEY)
    IN  [n \in DOMAIN groups |->
            IF calculate_common_best
            THEN get_common_best(groups[n], Key(groups[n][1], TIER1_KEY))
            ELSE [raised |-> FALSE, value |-> get_smallest_best(groups[n])]]

\* Mutant of mismatch_warnings: a warning for every group, whatever its size.
mismatch_warnings_every_group(database_defaults) ==
    LET groups == GroupBy(database_defaults, WARNING_KEY)
    IN  [i \in DOMAIN groups |->
            <<ColumnMin("kernel", groups[i]), ColumnMin("device_vendor", groups[i])>>]

\* Lines 45-49: the descriptions printed, in order.
mismatch_warnings(database_defaults) ==
    LET groups == GroupBy(database_defaults, WARNING_KEY)
        description(g) ==
            <<ColumnMin("kernel", g), ColumnMin("device_vendor", g)>>
        F[i \in 0..Len(groups)] ==
            IF i = 0 THEN <<>>
            ELSE IF Len(groups[i]) # 1
                 THEN Append(F[i - 1], description(groups[i]))
                 ELSE F[i - 1]
    IN  F[Len(groups)]

\* Lines 55-56.
set_default_type_vendor(default_values) ==
    [c \in DOMAIN default_values \cup {"device_vendor", "device_type"} |->
        IF c = "device_vendor" THEN VENDOR_DEFAULT
        ELSE IF c = "device_type" THEN DEVICE_TYPE_DEFAULT
        ELSE default_values[c]]

\* Mutant of all_devices_defaults: the second loop uses get_common_best.
all_devices_defaults_common_best(db) ==
    LET groups == GroupBy(db, TIER2_KEY)
    IN  [n \in DOMAIN groups |->
            set_default_time(set_default_device(set_default_type_vendor(
                get_common_best(groups[n], Key(groups[n][1], TIER2_KEY)).value)))]

\* Lines 52-59.
all_devices_defaults(db) ==
    LET groups == GroupBy(db, TIER2_KEY)
    IN  [n \in DOMAIN groups |->
            set_default_time(set_default_device(
                set_default_type_vendor(get_smallest_best(groups[n]))))]

\* raised: an assertion failed in the first loop; table: database_defaults;
\* tier1: the number of rows of table the first loop appended; warnings:
\* the descriptions printed.
calculate_defaults(db, calculate_common_best) ==
    LET best  == type_vendor_best(db, calculate_common_best)
        tier1 == [n \in DOMAIN best |->
                     set_default_time(set_default_device(best[n].value))]
    IN  IF \E n \in DOMAIN best : best[n].raised
        THEN [raised |-> TRUE]
        ELSE [raised   |-> FALSE,
              table    |-> tier1 \o all_devices_defaults(db),
              tier1    |-> Len(tier1),
              warnings |-> mismatch_warnings(tier1)]

(***************************************************************************)
(* Inputs                                                                  *)
(***************************************************************************)
MaxRows == 4
MaxWideRows == 2
MaxDbRows == 4
MaxWideDbRows == 2

Devices ==
    {[device |-> "dev0", device_core_clock |-> 1000, device_compute_units |-> 8],
     [device |-> "dev1", device_core_clock |-> 800, device_compute_units |-> 16]}

TypeVendors ==
    {[device_vendor |-> "AMD", device_type |-> "GPU"],
     [device_vendor |-> "Intel", device_type |-> "CPU"]}

Kernels ==
    {[precision |-> 32, kernel_family |-> "xgemm", kernel |-> "Xgemm"],
     [precision |-> 64, kernel_family |-> "xgemm", kernel |-> "Xgemm"]}

Arguments == {[arg_m |-> 64, arg_n |-> 64], [arg_m |-> 64, arg_n |-> 128]}

Times == 1..2
OneTime == {1}

OneParameter(S) == {("parameters.a" :> a) : a \in S}
TwoParameters(S) ==
    {("parameters.a" :> a) @@ ("parameters.b" :> b) : a \in S, b \in S}

Rows(devs, tvs, kernels, args, params, times) ==
    {d @@ tv @@ k @@ g @@ p @@ ("time" :> t) :
        d \in devs, tv \in tvs, k \in kernels, g \in args, p \in params, t \in times}

SeqsUpTo(S, n) == UNION {[1..k -> S] : k \in 1..n}

\* The tables of up to n rows of S in which no row is repeated verbatim.
DistinctSeqsUpTo(S, n) ==
    {t \in SeqsUpTo(S, n) : \A i, j \in DOMAIN t : t[i] = t[j] => i = j}

TheTypeVendor == [device_vendor |-> "AMD", device_type |-> "GPU"]
TheKernel == [precision |-> 32, kernel_family |-> "xgemm", kernel |-> "Xgemm"]
TheArguments == [arg_m |-> 64, arg_n |-> 64]

\* Rows of one device type and vendor, kernel and arguments: one group of
\* the first loop of calculate_defaults.
NarrowRows ==
    Rows(Devices, {TheTypeVendor}, {TheKernel}, {TheArguments}, OneParameter(1..2), Times)
WideRows ==
    Rows(Devices, {TheTypeVendor}, {TheKernel}, {TheArguments},
         OneParameter(1..2) \cup TwoParameters(1..2), Times)

GroupInputs == SeqsUpTo(NarrowRows, MaxRows) \cup SeqsUpTo(WideRows, MaxWideRows)

NarrowDbRows ==
    Rows(Devices, {TheTypeVendor}, {TheKernel}, {TheArguments}, OneParameter(1..3), Times)
WideDbRows ==
    Rows(Devices, TypeVendors, Kernels, Arguments, OneParameter(1..2), OneTime)

DbInputs ==
    DistinctSeqsUpTo(NarrowDbRows, MaxDbRows) \cup SeqsUpTo(WideDbRows, MaxWideDbRows)

(***************************************************************************)
(* Specifications                                                          *)
(***************************************************************************)
NotCalled == [raised |-> FALSE]

Init ==
    /\ database \in GroupInputs
    /\ pc = "ready"
    /\ returned = NotCalled

CallGetCommonBest ==
    /\ pc = "ready"
    /\ returned' = get_common_best(database, Key(database[1], TIER1_KEY))
    /\ pc' = "get_common_best"
    /\ UNCHANGED database

CallGetSmallestBest ==
    /\ pc = "ready"
    /\ returned' = [raised |-> FALSE, value |-> get_smallest_best(database)]
    /\ pc' = "get_smallest_best"
    /\ UNCHANGED database

Next == CallGetCommonBest \/ CallGetSmallestBest

Spec == Init /\ [][Next]_vars

InitDb ==
    /\ database \in DbInputs
    /\ pc = "ready"
    /\ returned = NotCalled

CallCalculateDefaults(calculate_common_best) ==
    /\ pc = "ready"
    /\ returned' = calculate_defaults(database, calculate_common_best)
    /\ pc' = IF calculate_common_best THEN "defaults_common" ELSE "defaults_smallest"
    /\ UNCHANGED database

NextDb == \E calculate_common_best \in BOOLEAN : CallCalculateDefaults(calculate_common_best)

SpecDb == InitDb /\ [][NextDb]_vars

(***************************************************************************)
(* Vocabulary of the properties, stated on the input table itself.         *)
(***************************************************************************)
Params(r) ==
    [c \in Range(PARAMETER_COLUMNS) \cap DOMAIN r |-> r[c]]

DeviceOf(r) == <<r["device"], r["device_core_clock"], r["device_compute_units"]>>

DevicesOf(db) == {DeviceOf(db[i]) : i \in DOMAIN db}

Combinations(db) == {Params(db[i]) : i \in DOMAIN db}

MeasuredOn(db, p, d) ==
    \E i \in DOMAIN db : DeviceOf(db[i]) = d /\ Params(db[i]) = p

\* The combinations measured on every device of the table.
SharedCombinations(db) ==
    {p \in Combinations(db) : \A d \in DevicesOf(db) : MeasuredOn(db, p, d)}

SummedTime(db, p) == SumTime(SelectSeq(db, LAMBDA r : Params(r) = p))

MinimalShared(db) ==
    {p \in SharedCombinations(db) :
        \A q \in SharedCombinations(db) : SummedTime(db, p) <= SummedTime(db, q)}

RowOrders(db) ==
    {[i \in DOMAIN db |-> db[f[i]]] :
        f \in {g \in [DOMAIN db -> DOMAIN db] : \A i, j \in DOMAIN db : g[i] = g[j] => i = j}}

KeysOf(db, cols) == {Key(db[i], cols) : i \in DOMAIN db}

\* The columns of the input schema (group_time is not one of them).
SchemaRow(r) == [c \in DOMAIN r \ {"group_time"} |-> r[c]]
RowSet(table) == {SchemaRow(table[i]) : i \in DOMAIN table}

DefaultsDone == pc \in {"defaults_common", "defaults_smallest"}

\* No device measured a combination twice.
CleanInput(db) ==
    \A i, j \in DOMAIN db :
        (i # j /\ DeviceOf(db[i]) = DeviceOf(db[j])) => Params(db[i]) # Params(db[j])

\* calculate_defaults on the databases in which no device measured a
\* combination twice: there the row count of a parameter group is the
\* number of devices that measured it.
InitDbClean ==
    /\ database \in {t \in DbInputs : CleanInput(t)}
    /\ pc = "ready"
    /\ returned = NotCalled

SpecDbClean == InitDbClean /\ [][NextDb]_vars

(***************************************************************************)
(* C1: when some combination is measured on every device of the group,     *)
(* get_common_best returns a combination measured on every device, with    *)
(* the minimal summed time among those; never one missing on a device.     *)
(***************************************************************************)
C1_CommonBestIsSharedAndMinimal ==
    (pc = "get_common_best" /\ SharedCombinations(database) # {}) =>
        /\ ~returned.raised
        /\ Params(returned.value) \in MinimalShared(database)

(***************************************************************************)
(* C2: when no combination is shared by all devices of the group,          *)
(* get_common_best returns what get_smallest_best returns on the group,    *)
(* column for column.                                                      *)
(***************************************************************************)
C2_FallbackEqualsSmallestBest ==
    (pc = "get_common_best" /\ SharedCombinations(database) = {}) =>
        /\ ~returned.raised
        /\ returned.value = get_smallest_best(database)

(***************************************************************************)
(* C3: each column of get_smallest_best is the minimum of that column      *)
(* over the best rows of the devices, independently of the other columns.  *)
(***************************************************************************)
C3_ColumnWiseMinimum ==
    pc = "get_smallest_best" =>
        LET best == get_best_results(database)
            v    == returned.value
        IN  /\ DOMAIN v = UNION {DOMAIN best[i] : i \in DOMAIN best}
            /\ \A c \in DOMAIN v :
                  /\ \E i \in DOMAIN best : c \in DOMAIN best[i] /\ best[i][c] = v[c]
                  /\ \A i \in DOMAIN best :
                        c \in DOMAIN best[i] => ~ValueLess(c, best[i][c], v[c])

\* The result combines values that no measured row holds together.
C3_Witness ==
    /\ pc = "get_smallest_best"
    /\ Cardinality(DevicesOf(database)) = 2
    /\ Params(returned.value) \notin Combinations(database)

(***************************************************************************)
(* C4: every row of the returned table has the default device name, zero   *)
(* compute units, zero core clock and zero time; the rows of the second    *)
(* loop have the default vendor and type, those of the first loop the      *)
(* vendor and type of their group.                                         *)
(***************************************************************************)
C4_SentinelsStamped ==
    (DefaultsDone /\ ~returned.raised) =>
        LET table  == returned.table
            groups == SortKeys(KeysOf(database,
                          <<"device_vendor", "device_type", "precision", "kernel_family",
                            "kernel", "arg_m", "arg_n">>),
                          <<"device_vendor", "device_type", "precision", "kernel_family",
                            "kernel", "arg_m", "arg_n">>)
        IN  \A i \in DOMAIN table :
                /\ table[i]["device"] = DEVICE_NAME_DEFAULT
                /\ table[i]["device_compute_units"] = 0
                /\ table[i]["device_core_clock"] = 0
                /\ table[i]["time"] = 0
                /\ i > returned.tier1 =>
                      /\ table[i]["device_vendor"] = VENDOR_DEFAULT
                      /\ table[i]["device_type"] = DEVICE_TYPE_DEFAULT
                /\ i <= returned.tier1 =>
                      /\ i <= Len(groups)
                      /\ table[i]["device_vendor"] = groups[i][1]
                      /\ table[i]["device_type"] = groups[i][2]

C4_Witness ==
    /\ pc = "defaults_common"
    /\ ~returned.raised
    /\ returned.tier1 = 2
    /\ Len(returned.table) > returned.tier1
    /\ returned.table[1]["device_vendor"] # returned.table[2]["device_vendor"]

(***************************************************************************)
(* C5: calculate_defaults applied to its own table returns the same        *)
(* default rows.  (Rows are compared on the columns of the input schema.)  *)
(***************************************************************************)
Rerun == calculate_defaults(returned.table, pc = "defaults_common")

C5_Idempotent ==
    (DefaultsDone /\ ~returned.raised) =>
        LET again == Rerun
        IN  /\ ~again.raised
            /\ RowSet(again.table) = RowSet(returned.table)

\* C5 as it holds: with calculate_common_best false, the rerun returns the
\* same set of distinct rows.
C5_IdempotentSmallestBest ==
    (pc = "defaults_smallest" /\ ~returned.raised) =>
        LET again == Rerun
        IN  /\ ~again.raised
            /\ RowSet(again.table) = RowSet(returned.table)

C5_Witness ==
    /\ pc = "defaults_smallest"
    /\ returned.tier1 = 2
    /\ Len(returned.table) = 3
    /\ Params(returned.table[1]) # Params(returned.table[2])

(***************************************************************************)
(* C6: one warning is emitted for each (type, vendor, kernel attributes,   *)
(* kernel) group of the first loop's defaults that holds more than one     *)
(* row, none for any other group, and the warned rows stay in the table.   *)
(***************************************************************************)
WarnedGroups(db) ==
    {k \in KeysOf(db, <<"device_vendor", "device_type", "precision", "kernel_family", "kernel">>) :
        Cardinality({<<db[i]["arg_m"], db[i]["arg_n"]>> :
            i \in {j \in DOMAIN db :
                Key(db[j], <<"device_vendor", "device_type", "precision",
                             "kernel_family", "kernel">>) = k}}) > 1}

C6_OneWarningPerMismatchedGroup ==
    (DefaultsDone /\ ~returned.raised) =>
        LET w      == returned.warnings
            warned == WarnedGroups(database)
            keys   == {Key(returned.table[n], <<"device_vendor", "device_type", "precision",
                                                "kernel_family", "kernel", "arg_m", "arg_n">>) :
                          n \in 1..returned.tier1}
        IN  /\ Len(w) = Cardinality(warned)
            /\ \A k \in warned :
                  Cardinality({i \in DOMAIN w : w[i] = <<k[5], k[1]>>}) =
                  Cardinality({o \in warned : o[5] = k[5] /\ o[1] = k[1]})
            /\ \A i \in DOMAIN database :
                  Key(database[i], <<"device_vendor", "device_type", "precision",
                                     "kernel_family", "kernel", "arg_m", "arg_n">>) \in keys

C6_Witness ==
    /\ DefaultsDone
    /\ ~returned.raised
    /\ Len(returned.warnings) = 1
    /\ returned.tier1 = 2

(***************************************************************************)
(* C7: the table holds exactly one row of the first loop for each          *)
(* (type, vendor, kernel attributes, kernel, arguments) key of the         *)
(* database and one row of the second loop for each (kernel attributes,    *)
(* kernel, arguments) key; its length is the sum of the two key counts.    *)
(***************************************************************************)
C7_OneRowPerKey ==
    DefaultsDone =>
        LET k1 == <<"device_vendor", "device_type", "precision", "kernel_family",
                    "kernel", "arg_m", "arg_n">>
            k2 == <<"precision", "kernel_family", "kernel", "arg_m", "arg_n">>
            t  == returned.table
            n1 == returned.tier1
        IN  /\ ~returned.raised
            /\ n1 = Cardinality(KeysOf(database, k1))
            /\ {Key(t[i], k1) : i \in 1..n1} = KeysOf(database, k1)
            /\ Len(t) - n1 = Cardinality(KeysOf(database, k2))
            /\ {Key(t[i], k2) : i \in (n1 + 1)..Len(t)} = KeysOf(database, k2)
            /\ Len(t) = Cardinality(KeysOf(database, k1)) + Cardinality(KeysOf(database, k2))

C7_Witness ==
    /\ pc = "defaults_common"
    /\ ~returned.raised
    /\ returned.tier1 = 2
    /\ Len(returned.table) = 3

(***************************************************************************)
(* C8: a parameter group is kept by get_common_best exactly when every     *)
(* device of the group measured that combination, for any input.           *)
(***************************************************************************)
C8_KeptIffMeasuredOnEveryDevice ==
    pc = "get_common_best" =>
        LET common == database_common(database)
        IN  \A p \in Combinations(database) :
                (\E i \in DOMAIN common : Params(common[i]) = p)
                    <=> p \in SharedCombinations(database)

(***************************************************************************)
(* C9: when two distinct combinations shared by all devices tie for the    *)
(* minimal summed time, get_common_best fails its assertion.               *)
(***************************************************************************)
C9_TieAborts ==
    (pc = "get_common_best" /\ Cardinality(MinimalShared(database)) >= 2) =>
        returned.raised

(***************************************************************************)
(* C10: the combination get_common_best returns does not depend on the     *)
(* order of the rows of the group.                                         *)
(***************************************************************************)
C10_OrderIndependent ==
    pc = "get_common_best" =>
        \A other \in RowOrders(database) :
            LET r == get_common_best(other, Key(other[1], TIER1_KEY))
            IN  /\ r.raised = returned.raised
                /\ ~r.raised => Params(r.value) = Params(returned.value)

====
